---- MODULE Spec2Model ----
(***************************************************************************)
(* A model of the YouTube abuse dashboard's data collection module         *)
(* (src/01_data_collection.py): the per-comment abuse analysis, the        *)
(* velocity and coordination metrics of a comment batch, the aggregation   *)
(* of a batch into an abuse_metrics row, and the per-video pipeline of     *)
(* main() over the SQLite store.                                           *)
(*                                                                         *)
(* Numbers.  The program computes in binary floating point and rounds the  *)
(* results it returns.  The model computes the same quantities exactly, in *)
(* fixed point: a spam score in units of 1/10000, a coordination score in  *)
(* units of 1/1000, a velocity and a prevalence in units of 1/100, and     *)
(* round(x, k) as rounding half to even.                                   *)
(*                                                                         *)
(* Text.  A text is a sequence of one-character strings.                   *)
(***************************************************************************)
EXTENDS Integers, Sequences, FiniteSets, TLC

VARIABLES
  text,          \* SpecText: the text handed to analyze_comment_for_abuse
  analysis,      \* SpecText: what analyze_comment_for_abuse returned, or NotRun
  signals,       \* SpecScore: the four signals the spam score is computed from
  scored,        \* SpecScore: the spam score and class of the signals, or NotRun
  batch,         \* SpecBatch: a list of scored comments
  bres,          \* SpecBatch: the call made on the batch and its outcome, or NotRun
  pc,            \* Spec: the position of main()
  run,           \* Spec: the number of the collection run (main() invocation)
  videos,        \* Spec: the list get_trending_videos returned to this run
  idx,           \* Spec: the loop index of main()'s for loop (1-based)
  comments,      \* Spec: the list get_video_comments returned for the current video
  fetch,         \* Spec: how that fetch ended ("none", "ok", "failed")
  db_videos,     \* Spec: table videos (the set of stored video ids)
  db_comments,   \* Spec: table comments, comment_id -> row (a set of rows keyed by id)
  db_metrics     \* Spec: table abuse_metrics, in metric_id order

textVars  == <<text, analysis, signals, scored>>
batchVars == <<batch, bres>>
mainVars  == <<pc, run, videos, idx, comments, fetch, db_videos, db_comments, db_metrics>>
vars      == <<text, analysis, signals, scored, batch, bres, pc, run, videos, idx, comments, fetch,
               db_videos, db_comments, db_metrics>>

NotRun == [op |-> "none"]

-----------------------------------------------------------------------------
(* Arithmetic helpers.                                                     *)

Min(a, b) == IF a <= b THEN a ELSE b

\* Python's round(): num/den (num >= 0, den > 0) to the nearest integer, a
\* tie going to the even neighbour.
RoundHalfEven(num, den) ==
  LET q == num \div den
      r == num % den
  IN  IF 2 * r < den THEN q
      ELSE IF 2 * r > den THEN q + 1
      ELSE IF q % 2 = 0 THEN q ELSE q + 1

\* The outcome of a call: a value, or the exception it raised.
Value(v) == [error |-> "none", value |-> v]
Fault(e) == [error |-> e, value |-> 0]

\* Python's num / den followed by round(): ZeroDivisionError when den = 0.
RoundedQuotient(num, den) ==
  IF den = 0 THEN Fault("ZeroDivisionError") ELSE Value(RoundHalfEven(num, den))

Replicate(x, n) == [i \in 1..n |-> x]

SeqsUpTo(S, n) == UNION {[1..k -> S] : k \in 0..n}

-----------------------------------------------------------------------------
(* Characters and strings.                                                 *)

UpperChars == <<"A", "B", "C", "D", "E", "F", "G", "H", "I", "J", "K", "L", "M",
                "N", "O", "P", "Q", "R", "S", "T", "U", "V", "W", "X", "Y", "Z">>
LowerChars == <<"a", "b", "c", "d", "e", "f", "g", "h", "i", "j", "k", "l", "m",
                "n", "o", "p", "q", "r", "s", "t", "u", "v", "w", "x", "y", "z">>

\* str.isupper() of one character
IsUpper(c) == \E i \in 1..Len(UpperChars) : UpperChars[i] = c

\* str.lower() of one character
LowerChar(c) ==
  IF IsUpper(c)
  THEN LowerChars[CHOOSE i \in 1..Len(UpperChars) : UpperChars[i] = c]
  ELSE c

\* str.lower()
Lower(t) == [i \in 1..Len(t) |-> LowerChar(t[i])]

\* Python's `k in t` on strings
Contains(t, k) ==
  \E i \in 0..(Len(t) - Len(k)) : SubSeq(t, i + 1, i + Len(k)) = k

\* Config.SPAM_KEYWORDS
SPAM_KEYWORDS ==
    << <<"c", "l", "i", "c", "k", " ", "h", "e", "r", "e">>,
       <<"f", "r", "e", "e", " ", "m", "o", "n", "e", "y">>,
       <<"s", "u", "b", "s", "c", "r", "i", "b", "e", " ", "t", "o", " ", "m", "y",
         " ", "c", "h", "a", "n", "n", "e", "l">>,
       <<"c", "h", "e", "c", "k", " ", "o", "u", "t", " ", "m", "y">>,
       <<"d", "m", " ", "f", "o", "r">>,
       <<"w", "i", "n", "n", "e", "r">>,
       <<"c", "o", "n", "g", "r", "a", "t", "u", "l", "a", "t", "i", "o", "n", "s">>,
       <<"t", "e", "l", "e", "g", "r", "a", "m">>,
       <<"w", "h", "a", "t", "s", "a", "p", "p", " ", "m", "e">>,
       <<"+", "1">>,
       <<"c", "a", "s", "h", " ", "a", "p", "p">>,
       <<"!", "!", "!">>,
       <<"?", "?", "?", "?">>,
       <<"w", "w", "w", ".">>,
       <<"h", "t", "t", "p">> >>

-----------------------------------------------------------------------------
(* analyze_comment_for_abuse                                               *)

\* sum(1 for keyword in Config.SPAM_KEYWORDS if keyword in text_lower)
spam_matches(t) ==
  LET text_lower == Lower(t)
  IN  Cardinality({i \in 1..Len(SPAM_KEYWORDS) : Contains(text_lower, SPAM_KEYWORDS[i])})

\* a pattern without its www\. alternative
has_url_scheme_only(t) ==
  IF \/ Contains(t, <<"h", "t", "t", "p", ":", "/", "/">>)
     \/ Contains(t, <<"h", "t", "t", "p", "s", ":", "/", "/">>)
  THEN 1 ELSE 0

\* re.search(r'http[s]?://|www\.', text), on the text as given
has_url(t) ==
  IF \/ Contains(t, <<"h", "t", "t", "p", ":", "/", "/">>)
     \/ Contains(t, <<"h", "t", "t", "p", "s", ":", "/", "/">>)
     \/ Contains(t, <<"w", "w", "w", ".">>)
  THEN 1 ELSE 0

\* sum(1 for c in text if c.isupper())
caps_count(t) == Cardinality({i \in 1..Len(t) : IsUpper(t[i])})

\* caps_ratio = caps / (len(text) + 1); caps_ratio > 0.5 and len(text) > 10
has_excessive_caps(t) ==
  IF 2 * caps_count(t) > Len(t) + 1 /\ Len(t) > 10 THEN 1 ELSE 0

\* re.search(r'(.)\1{3,}', text): `.` matches every character but a line break
has_repetitive(t) ==
  IF \E i \in 1..(Len(t) - 3) :
        /\ t[i] # "\n"
        /\ t[i + 1] = t[i] /\ t[i + 2] = t[i] /\ t[i + 3] = t[i]
  THEN 1 ELSE 0

\* The weights 0.3, 0.3, 0.2, 0.2, the clamp 1.0 and the thresholds 0.4 and
\* 0.6, in units of 1/10000.
W_KEYWORD  == 3000
W_URL      == 3000
W_CAPS     == 2000
W_REPEAT   == 2000
SCORE_ONE  == 10000
SPAM_THRESHOLD == 4000
SUSPICIOUS_THRESHOLD == 6000
\* round(spam_score, 3): the returned score is a multiple of 1/1000
SCORE_ROUND_UNIT == 10

\* the repetition signal subtracted instead of added
spam_score_minus_repeat(matches, url, caps, repetitive) ==
  Min(SCORE_ONE, matches * W_KEYWORD + url * W_URL + caps * W_CAPS - repetitive * W_REPEAT)

\* min(1.0, matches*0.3 + has_url*0.3 + caps*0.2 + repetitive*0.2)
spam_score_of(matches, url, caps, repetitive) ==
  Min(SCORE_ONE, matches * W_KEYWORD + url * W_URL + caps * W_CAPS + repetitive * W_REPEAT)

\* the spam score of a text, before rounding
raw_spam_score(t) ==
  spam_score_of(spam_matches(t), has_url(t), has_excessive_caps(t), has_repetitive(t))

\* a strict comparison in place of >=
is_spam_strict(score) == IF score > SPAM_THRESHOLD THEN 1 ELSE 0

\* is_spam = 1 if spam_score >= 0.4 else 0 (on the score before rounding)
is_spam_of(score) == IF score >= SPAM_THRESHOLD THEN 1 ELSE 0

\* round(spam_score, 3)
round_score(score) == RoundHalfEven(score, SCORE_ROUND_UNIT) * SCORE_ROUND_UNIT

analyze_comment_for_abuse(t) ==
  LET spam_score == raw_spam_score(t)
  IN  [ is_spam              |-> is_spam_of(spam_score),
        spam_score           |-> round_score(spam_score),
        has_url              |-> has_url(t),
        has_excessive_caps   |-> has_excessive_caps(t),
        has_repetitive_chars |-> has_repetitive(t) ]

-----------------------------------------------------------------------------
(* Comments.  published_at is the API's timestamp string: either an        *)
(* ISO-8601 instant of the form 2024-01-01T00:mm:ss followed by "Z" or     *)
(* "+00:00" (iso = TRUE), or a string datetime.fromisoformat rejects.      *)
(* author_name and like_count are carried by the program and read by none  *)
(* of the computations; they are left out.                                 *)

Stamp(mm, ss, tz) == [iso |-> TRUE, mm |-> mm, ss |-> ss, tz |-> tz]
Malformed         == [iso |-> FALSE, mm |-> 0, ss |-> 0, tz |-> "?"]

\* c['published_at'].replace('Z', '+00:00')
ReplaceZ(p) == IF p.tz = "Z" THEN [p EXCEPT !.tz = "+00:00"] ELSE p

\* datetime.fromisoformat(s): the instant, in seconds after 00:00:00 UTC, or
\* ValueError.
fromisoformat(p) ==
  IF p.iso /\ p.tz = "+00:00"
  THEN Value(60 * p.mm + p.ss)
  ELSE Fault("ValueError")

\* get_video_comments, the loop body: the comment_data of one API item, updated
\* with analyze_comment_for_abuse(text_display).
comment_data(id, vid, raw) ==
  LET a == analyze_comment_for_abuse(raw.text_display)
  IN  [ comment_id           |-> id,
        video_id             |-> vid,
        author_channel_id    |-> raw.author_channel_id,
        text_display         |-> raw.text_display,
        published_at         |-> raw.published_at,
        is_spam              |-> a.is_spam,
        spam_score           |-> a.spam_score,
        has_url              |-> a.has_url,
        has_excessive_caps   |-> a.has_excessive_caps,
        has_repetitive_chars |-> a.has_repetitive_chars ]

-----------------------------------------------------------------------------
(* calculate_velocity_metrics                                              *)

RECURSIVE Insert(_, _)
Insert(x, s) ==
  IF s = <<>> THEN <<x>>
  ELSE IF x <= Head(s) THEN <<x>> \o s
  ELSE <<Head(s)>> \o Insert(x, Tail(s))

\* list.sort()
RECURSIVE Sort(_)
Sort(s) == IF s = <<>> THEN <<>> ELSE Insert(Head(s), Sort(Tail(s)))

\* [datetime.fromisoformat(c['published_at'].replace('Z', '+00:00')) for c in comments]
parsed_timestamps(cs) == [i \in 1..Len(cs) |-> fromisoformat(ReplaceZ(cs[i].published_at))]

\* velocity in units of 1/100 comment per minute
VELOCITY_SCALE == 100
SECONDS_PER_MINUTE == 60

\* time_window_minutes == 0
zero_window(first, last) == last - first = 0

\* a guard of len(comments) < 1 in place of < 2
too_few_one(cs) == Len(cs) < 1

\* len(comments) < 2
too_few_for_velocity(cs) == Len(cs) < 2

calculate_velocity_metrics(cs) ==
  IF too_few_for_velocity(cs) THEN Value(0)
  ELSE
    LET parsed == parsed_timestamps(cs)
    IN  IF \E i \in 1..Len(cs) : parsed[i].error # "none"
        THEN Fault("ValueError")
        ELSE
          LET timestamps == Sort([i \in 1..Len(cs) |-> parsed[i].value])
              first      == timestamps[1]
              last       == timestamps[Len(timestamps)]
          IN  IF zero_window(first, last)
              THEN Value(Len(cs) * VELOCITY_SCALE)
              \* len / ((last - first).total_seconds() / 60), round(, 2)
              ELSE RoundedQuotient(Len(cs) * SECONDS_PER_MINUTE * VELOCITY_SCALE,
                                   last - first)

-----------------------------------------------------------------------------
(* detect_coordinated_activity                                             *)

MIN_COORDINATION_BATCH == 5
\* the weights 0.6 and 0.4 in tenths, the score in units of 1/1000
W_DUPLICATE == 6
W_AUTHOR    == 4
COORD_SCALE == 100

\* texts = [c['text_display'].lower() for c in comments]
lowered_texts(cs) == [i \in 1..Len(cs) |-> Lower(cs[i].text_display)]

\* Counter(texts)[t]
text_count(texts, t) == Cardinality({i \in 1..Len(texts) : texts[i] = t})

\* sum(1 for count in text_counts.values() if count > 1): one per distinct
\* text that occurs more than once
duplicate_count(cs) ==
  LET texts == lowered_texts(cs)
  IN  Cardinality({t \in {texts[i] : i \in 1..Len(texts)} : text_count(texts, t) > 1})

\* the authors counted along the list, one per change of author
unique_author_runs(cs) ==
  Cardinality({i \in 1..Len(cs) :
     i = 1 \/ cs[i].author_channel_id # cs[i - 1].author_channel_id})

\* len(set(authors))
unique_author_count(cs) == Cardinality({cs[i].author_channel_id : i \in 1..Len(cs)})

\* a guard of len(comments) < 4 in place of < 5
too_few_for_coordination_four(cs) == Len(cs) < MIN_COORDINATION_BATCH - 1

\* len(comments) < 5
too_few_for_coordination(cs) == Len(cs) < MIN_COORDINATION_BATCH

detect_coordinated_activity(cs) ==
  IF too_few_for_coordination(cs) THEN Value(0)
  ELSE
    \* round(dup/n * 0.6 + (1 - unique/n) * 0.4, 3)
    RoundedQuotient(
      COORD_SCALE * (W_DUPLICATE * duplicate_count(cs)
                     + W_AUTHOR * (Len(cs) - unique_author_count(cs))),
      Len(cs))

-----------------------------------------------------------------------------
(* store_abuse_metrics: the aggregation (the row handed to INSERT).        *)

\* spam prevalence in units of 1/100 percent
PERCENT == 100
PREVALENCE_SCALE == 100

\* sum(1 for c in comments if c['is_spam'] == 1)
spam_count(cs) == Cardinality({i \in 1..Len(cs) : cs[i].is_spam = 1})

\* a comparison >= 0.6 in place of > 0.6
suspicious_count_inclusive(cs) ==
  Cardinality({i \in 1..Len(cs) : cs[i].spam_score >= SUSPICIOUS_THRESHOLD})

\* sum(1 for c in comments if c['spam_score'] > 0.6)
suspicious_count(cs) ==
  Cardinality({i \in 1..Len(cs) : cs[i].spam_score > SUSPICIOUS_THRESHOLD})

\* the division without its total_comments > 0 guard
spam_prevalence_unguarded(spam, total) ==
  RoundedQuotient(spam * PERCENT * PREVALENCE_SCALE, total)

\* the ratio without its factor 100
spam_prevalence_fraction(spam, total) ==
  IF total > 0 THEN RoundedQuotient(spam * PREVALENCE_SCALE, total) ELSE Value(0)

\* (spam_comments / total_comments * 100) if total_comments > 0 else 0,
\* and round(spam_prevalence, 2) in the INSERT
spam_prevalence(spam, total) ==
  IF total > 0 THEN RoundedQuotient(spam * PERCENT * PREVALENCE_SCALE, total) ELSE Value(0)

\* The row store_abuse_metrics builds for INSERT INTO abuse_metrics, or the
\* exception raised on the way; `now` stands for datetime.now().
aggregate_metrics(vid, now, cs) ==
  LET prevalence   == spam_prevalence(spam_count(cs), Len(cs))
      velocity     == calculate_velocity_metrics(cs)
      coordination == detect_coordinated_activity(cs)
  IN  IF prevalence.error # "none" THEN Fault(prevalence.error)
      ELSE IF velocity.error # "none" THEN Fault(velocity.error)
      ELSE IF coordination.error # "none" THEN Fault(coordination.error)
      ELSE Value([ video_id             |-> vid,
                   timestamp            |-> now,
                   total_comments       |-> Len(cs),
                   spam_comments        |-> spam_count(cs),
                   spam_prevalence      |-> prevalence.value,
                   comment_velocity     |-> velocity.value,
                   unique_authors       |-> unique_author_count(cs),
                   suspicious_accounts  |-> suspicious_count(cs),
                   bot_likelihood_score |-> coordination.value ])

-----------------------------------------------------------------------------
(* The texts analyze_comment_for_abuse is applied to.                      *)

MaxTextLen == 4
MaxCapsLen == 12

TextAlphabet == {"a", "A", "!", "w", ".", "\n"}

\* every text of at most MaxTextLen characters over TextAlphabet
ShortTexts == SeqsUpTo(TextAlphabet, MaxTextLen)

\* i capitals followed by j small letters
CapsTexts ==
  {Replicate("A", i) \o Replicate("b", j) : i \in 0..MaxCapsLen, j \in 0..MaxCapsLen}

TextFreeMoney ==
  <<"F", "R", "E", "E", " ", "M", "O", "N", "E", "Y", "!", "!", "!", " ",
    "c", "l", "i", "c", "k", " ", "h", "e", "r", "e", " ",
    "w", "w", "w", ".", "s", "p", "a", "m", ".", "c", "o", "m">>
TextHelloooooo == <<"h", "e", "l", "l", "o", "o", "o", "o", "o", "o">>
TextHello      == <<"h", "e", "l", "l", "o">>
TextHi         == <<"h", "i">>
TextHI         == <<"H", "I">>
TextWww        == <<"w", "w", "w", ".">>
TextPlusWww    == <<"+", "1", "w", "w", "w", ".">>

SampleTexts ==
  { TextFreeMoney, TextHelloooooo, TextHello, TextHi, TextHI, TextWww, TextPlusWww,
    <<"h", "t", "t", "p", ":", "/", "/", "a">>,
    <<"h", "t", "t", "p", "s", ":", "/", "/", "a">>,
    <<"H", "T", "T", "P", ":", "/", "/", "A">>,
    <<"w", "i", "n", "n", "e", "r", " ", "w", "i", "n", "n", "e", "r">>,
    <<"a", " ", " ", " ", " ", "b">>,
    <<"?", "?", "?", "?">>,
    <<"+", "1", " ", "t", "e", "l", "e", "g", "r", "a", "m", " ",
      "c", "a", "s", "h", " ", "a", "p", "p", " ", "d", "m", " ", "f", "o", "r">> }

Texts == ShortTexts \cup CapsTexts \cup SampleTexts

-----------------------------------------------------------------------------
(* The comment batches the batch functions are applied to.                 *)

MaxBatch == 4
MaxBlock == 10

RawComment(author, t, p) ==
  [author_channel_id |-> author, text_display |-> t, published_at |-> p]

RawKinds ==
  { RawComment("a1", TextHi,      Stamp(0, 0, "Z")),
    RawComment("a2", TextHI,      Stamp(0, 0, "+00:00")),
    RawComment("a1", TextHi,      Stamp(0, 30, "Z")),
    RawComment("a2", TextWww,     Stamp(5, 0, "Z")),
    RawComment("a1", TextPlusWww, Stamp(0, 0, "Z")),
    RawComment("a2", TextHi,      Malformed) }

\* every list of at most MaxBatch comments, and every list of i copies of one
\* comment followed by j copies of another (i, j <= MaxBlock)
RawBatches ==
  SeqsUpTo(RawKinds, MaxBatch)
    \cup {Replicate(k1, i) \o Replicate(k2, j) :
            k1 \in RawKinds, k2 \in RawKinds, i \in 0..MaxBlock, j \in 0..MaxBlock}

\* get_video_comments, the loop over response['items']
scored_comments(vid, raws) ==
  [i \in 1..Len(raws) |-> comment_data(<<vid, i>>, vid, raws[i])]

-----------------------------------------------------------------------------
(* SpecText: analyze_comment_for_abuse applied to one text.                *)

NoSignals == [matches |-> 0, has_url |-> 0, has_excessive_caps |-> 0, has_repetitive |-> 0]
IdleScore == signals = NoSignals /\ scored = NotRun
IdleText  == text = <<>> /\ analysis = NotRun /\ IdleScore
IdleBatch == batch = <<>> /\ bres = NotRun
IdleMain  ==
  /\ pc = "idle" /\ run = 0 /\ videos = <<>> /\ idx = 0 /\ comments = <<>>
  /\ fetch = "none" /\ db_videos = {} /\ db_comments = {} /\ db_metrics = <<>>

InitText ==
  /\ text \in Texts
  /\ analysis = NotRun
  /\ IdleScore
  /\ IdleBatch
  /\ IdleMain

Analyze ==
  /\ analysis = NotRun
  /\ analysis' = [op |-> "analyze", out |-> analyze_comment_for_abuse(text)]
  /\ UNCHANGED <<text, signals, scored, batchVars, mainVars>>

NextText == Analyze

SpecText == InitText /\ [][NextText]_vars

Analyzed == analysis.op = "analyze"

\* C1: for every text (the empty text included) analyze_comment_for_abuse
\* returns a spam_score in [0,1], and is_spam is 1 exactly when the returned
\* (rounded) spam_score is >= 0.4, and 0 otherwise.
C1_ScoreBoundedAndThreshold ==
  Analyzed =>
    /\ analysis.out.spam_score \in 0..SCORE_ONE
    /\ analysis.out.is_spam = (IF analysis.out.spam_score >= SPAM_THRESHOLD THEN 1 ELSE 0)

\* C1 witness: a text scored exactly at the threshold (capitals and a
\* repeated character, no keyword, no URL) and classified spam.
C1_Witness ==
  /\ Analyzed
  /\ analysis.out.spam_score = SPAM_THRESHOLD
  /\ analysis.out.is_spam = 1
  /\ analysis.out.has_excessive_caps = 1

\* C13 as stated: for "FREE MONEY!!! click here www.spam.com" the analysis
\* returns has_url = true, at least 3 keyword matches, has_excessive_caps =
\* true, spam_score = 1.0 and is_spam = true.
C13_FreeMoneyAsStated ==
  (Analyzed /\ text = TextFreeMoney) =>
     /\ analysis.out.has_url = 1
     /\ spam_matches(text) >= 3
     /\ analysis.out.has_excessive_caps = 1
     /\ analysis.out.spam_score = SCORE_ONE
     /\ analysis.out.is_spam = 1

\* C13 as amended: for "FREE MONEY!!! click here www.spam.com" the analysis
\* returns has_url = true, 4 keyword matches (free money, click here, !!!,
\* www.), has_excessive_caps = false (9 capitals in 37 characters: the
\* ratio 9/38 is not above 0.5), spam_score = 1.0 after clamping and
\* is_spam = true.
C13_FreeMoneyAmended ==
  (Analyzed /\ text = TextFreeMoney) =>
     /\ analysis.out.has_url = 1
     /\ spam_matches(text) = 4
     /\ Len(text) = 37 /\ caps_count(text) = 9
     /\ analysis.out.has_excessive_caps = 0
     /\ analysis.out.spam_score = SCORE_ONE
     /\ analysis.out.is_spam = 1

\* C13 witness: the text was analyzed.
C13_Witness == Analyzed /\ text = TextFreeMoney /\ analysis.out.is_spam = 1

\* the text holds a run of at least 4 occurrences of one character
HasRunOfFour(t) ==
  \E i \in 1..(Len(t) - 3) : t[i + 1] = t[i] /\ t[i + 2] = t[i] /\ t[i + 3] = t[i]

\* C14: has_repetitive_chars is true if and only if the text holds a run of
\* at least 4 consecutive occurrences of the same character, whatever the
\* character (whitespace and line breaks included); true for "helloooooo",
\* false for "hello".
C14_RepetitiveIffRunOfFour ==
  Analyzed =>
     /\ (analysis.out.has_repetitive_chars = 1) <=> HasRunOfFour(text)
     /\ text = TextHelloooooo => analysis.out.has_repetitive_chars = 1
     /\ text = TextHello => analysis.out.has_repetitive_chars = 0

\* C16: with the default keywords, a text with has_url = 1 matches at least
\* one keyword, scores at least 0.6 and is classified spam; a text whose
\* only signals are the URL and one keyword match scores exactly 0.6, is
\* spam, and is not counted in suspicious_accounts (spam_score > 0.6).
C16_UrlImpliesSpam ==
  (Analyzed /\ analysis.out.has_url = 1) =>
     /\ spam_matches(text) >= 1
     /\ analysis.out.spam_score >= 6000
     /\ analysis.out.is_spam = 1
     /\ ( /\ spam_matches(text) = 1
          /\ analysis.out.has_excessive_caps = 0
          /\ analysis.out.has_repetitive_chars = 0 ) =>
           /\ analysis.out.spam_score = 6000
           /\ suspicious_count(<<analysis.out>>) = 0

\* C16 witness: a text whose only signals are a URL and the keyword www.
C16_Witness ==
  /\ Analyzed
  /\ text = TextWww
  /\ analysis.out.has_url = 1
  /\ analysis.out.spam_score = 6000
  /\ analysis.out.is_spam = 1

-----------------------------------------------------------------------------
(* SpecScore: the spam score and class computed from the four signals      *)
(* (analyze_comment_for_abuse, after the signals are extracted).           *)

\* the signals: 0 to len(SPAM_KEYWORDS) keywords matched, and three flags
SignalSpace ==
  [ matches            : 0..Len(SPAM_KEYWORDS),
    has_url            : {0, 1},
    has_excessive_caps : {0, 1},
    has_repetitive     : {0, 1} ]

score_signals(g) ==
  LET spam_score == spam_score_of(g.matches, g.has_url, g.has_excessive_caps, g.has_repetitive)
  IN  [spam_score |-> spam_score, is_spam |-> is_spam_of(spam_score)]

InitScore ==
  /\ signals \in SignalSpace
  /\ scored = NotRun
  /\ text = <<>> /\ analysis = NotRun
  /\ IdleBatch
  /\ IdleMain

ScoreSignals ==
  /\ scored = NotRun
  /\ scored' = [op |-> "score", out |-> score_signals(signals)]
  /\ UNCHANGED <<text, analysis, signals, batchVars, mainVars>>

NextScore == ScoreSignals

SpecScore == InitScore /\ [][NextScore]_vars

\* g raises exactly one signal of f and keeps the other three
RaisesOneSignal(f, g) ==
  \/ /\ g.matches > f.matches
     /\ g.has_url = f.has_url
     /\ g.has_excessive_caps = f.has_excessive_caps
     /\ g.has_repetitive = f.has_repetitive
  \/ /\ g.matches = f.matches
     /\ g.has_url + g.has_excessive_caps + g.has_repetitive
          = f.has_url + f.has_excessive_caps + f.has_repetitive + 1
     /\ g.has_url >= f.has_url
     /\ g.has_excessive_caps >= f.has_excessive_caps
     /\ g.has_repetitive >= f.has_repetitive

\* C12: the unrounded spam score is monotonic in each signal: with the
\* other three held fixed, turning has_url, has_excessive_caps or
\* has_repetitive from 0 to 1, or matching more keywords, never lowers
\* spam_score and never turns is_spam from 1 to 0.
C12_ScoreMonotonic ==
  scored.op = "score" =>
     \A g \in SignalSpace :
        RaisesOneSignal(signals, g) =>
           /\ score_signals(g).spam_score >= scored.out.spam_score
           /\ score_signals(g).is_spam >= scored.out.is_spam

\* C12 witness: one keyword alone was scored 0.3, not spam; raising any
\* other signal takes it to the threshold or beyond.
C12_Witness ==
  /\ scored.op = "score"
  /\ signals = [matches |-> 1, has_url |-> 0, has_excessive_caps |-> 0, has_repetitive |-> 0]
  /\ scored.out = [spam_score |-> 3000, is_spam |-> 0]

-----------------------------------------------------------------------------
(* SpecBatch: one of the batch functions applied to one batch of scored    *)
(* comments.                                                               *)

InitBatch ==
  /\ batch \in {scored_comments("v1", raws) : raws \in RawBatches}
  /\ bres = NotRun
  /\ IdleText
  /\ IdleMain

CalcVelocity ==
  /\ bres = NotRun
  /\ bres' = [op |-> "velocity", out |-> calculate_velocity_metrics(batch)]
  /\ UNCHANGED <<batch, textVars, mainVars>>

DetectCoordination ==
  /\ bres = NotRun
  /\ bres' = [op |-> "coordination", out |-> detect_coordinated_activity(batch)]
  /\ UNCHANGED <<batch, textVars, mainVars>>

Aggregate ==
  /\ bres = NotRun
  /\ bres' = [op |-> "aggregate", out |-> aggregate_metrics("v1", 0, batch)]
  /\ UNCHANGED <<batch, textVars, mainVars>>

NextBatch == CalcVelocity \/ DetectCoordination \/ Aggregate

SpecBatch == InitBatch /\ [][NextBatch]_vars

-----------------------------------------------------------------------------
(* Spec: main() over the SQLite store, run after run.  The clock of the    *)
(* store (datetime.now(), CURRENT_TIMESTAMP) is the number of the run.     *)

MaxRuns == 2

Videos == {"v1", "v2"}

\* what get_trending_videos can return: [] on an HttpError, else a list of
\* distinct videos
TrendingLists == {<<>>, <<"v1">>, <<"v2">>, <<"v1", "v2">>, <<"v2", "v1">>}

\* the items commentThreads().list can return for a video: none, one or two
\* comments, and comments whose published_at does not parse
ItemPlain     == RawComment("a1", TextHi, Stamp(0, 0, "Z"))
ItemSpam      == RawComment("a2", TextPlusWww, Stamp(5, 0, "Z"))
ItemMalformed == RawComment("a2", TextPlusWww, Malformed)
FetchedItems ==
  { <<>>, <<ItemPlain>>, <<ItemMalformed>>, <<ItemPlain, ItemSpam>>,
    <<ItemPlain, ItemMalformed>> }

\* INSERT OR REPLACE INTO comments, keyed by comment_id; collected_at
\* defaults to CURRENT_TIMESTAMP
upsert_comment(table, c, now) ==
  {r \in table : r.comment_id # c.comment_id}
    \cup {[ comment_id           |-> c.comment_id,
            video_id             |-> c.video_id,
            author_channel_id    |-> c.author_channel_id,
            text_display         |-> c.text_display,
            published_at         |-> c.published_at,
            is_spam              |-> c.is_spam,
            spam_score           |-> c.spam_score,
            has_url              |-> c.has_url,
            has_excessive_caps   |-> c.has_excessive_caps,
            has_repetitive_chars |-> c.has_repetitive_chars,
            collected_at         |-> now ]}

\* store_comments: the loop of INSERT OR REPLACE, then commit
RECURSIVE store_comments(_, _, _)
store_comments(table, cs, now) ==
  IF cs = <<>> THEN table
  ELSE store_comments(upsert_comment(table, Head(cs), now), Tail(cs), now)

\* an INSERT OR REPLACE keyed by video_id: the video's earlier snapshot goes
insert_or_replace_metrics(table, row) ==
  SelectSeq(table, LAMBDA m : m.video_id # row.video_id) \o <<row>>

\* INSERT INTO abuse_metrics: metric_id INTEGER PRIMARY KEY AUTOINCREMENT is
\* the row's place in the table
insert_metrics(table, row) == Append(table, row)

CurrentVideo == videos[idx]

\* main() is started: init_database keeps the tables (CREATE TABLE IF NOT
\* EXISTS); get_youtube_service returns None and main returns.
NoService ==
  /\ pc \in {"idle", "done", "crashed"}
  /\ run < MaxRuns
  /\ run' = run + 1
  /\ videos' = <<>>
  /\ idx' = 0
  /\ comments' = <<>>
  /\ fetch' = "none"
  /\ pc' = "done"
  /\ UNCHANGED <<db_videos, db_comments, db_metrics, textVars, batchVars>>

\* main() is started and get_trending_videos returns; main returns when the
\* list is empty.
StartRun ==
  /\ pc \in {"idle", "done", "crashed"}
  /\ run < MaxRuns
  /\ run' = run + 1
  /\ \E vs \in TrendingLists :
        /\ videos' = vs
        /\ idx' = IF vs = <<>> THEN 0 ELSE 1
        /\ pc' = IF vs = <<>> THEN "done" ELSE "store_video"
  /\ comments' = <<>>
  /\ fetch' = "none"
  /\ UNCHANGED <<db_videos, db_comments, db_metrics, textVars, batchVars>>

\* store_video_data(video)
StoreVideoData ==
  /\ pc = "store_video"
  /\ db_videos' = db_videos \cup {CurrentVideo}
  /\ pc' = "fetch"
  /\ UNCHANGED <<run, videos, idx, comments, fetch, db_comments, db_metrics,
                 textVars, batchVars>>

\* get_video_comments returns the scored comments of the response
FetchComments ==
  /\ pc = "fetch"
  /\ \E raws \in FetchedItems :
        /\ comments' = scored_comments(CurrentVideo, raws)
        /\ pc' = IF raws # <<>> THEN "store_comments" ELSE "next"
  /\ fetch' = "ok"
  /\ UNCHANGED <<run, videos, idx, db_videos, db_comments, db_metrics,
                 textVars, batchVars>>

\* get_video_comments catches an HttpError (comments disabled, or another
\* API error) and returns []
FetchFails ==
  /\ pc = "fetch"
  /\ comments' = <<>>
  /\ fetch' = "failed"
  /\ pc' = "next"
  /\ UNCHANGED <<run, videos, idx, db_videos, db_comments, db_metrics,
                 textVars, batchVars>>

\* if comments: store_comments(comments)
StoreComments ==
  /\ pc = "store_comments"
  /\ db_comments' = store_comments(db_comments, comments, run)
  /\ pc' = "store_metrics"
  /\ UNCHANGED <<run, videos, idx, comments, fetch, db_videos, db_metrics,
                 textVars, batchVars>>

\* store_abuse_metrics(video_id, comments): the row is inserted and
\* committed, or the exception raised by the aggregation ends main()
StoreAbuseMetrics ==
  /\ pc = "store_metrics"
  /\ LET out == aggregate_metrics(CurrentVideo, run, comments)
     IN  IF out.error = "none"
         THEN /\ db_metrics' = insert_metrics(db_metrics, out.value)
              /\ pc' = "next"
         ELSE /\ db_metrics' = db_metrics
              /\ pc' = "crashed"
  /\ UNCHANGED <<run, videos, idx, comments, fetch, db_videos, db_comments,
                 textVars, batchVars>>

\* the report of the video, time.sleep(1) and the next turn of the loop
NextVideo ==
  /\ pc = "next"
  /\ IF idx < Len(videos)
     THEN /\ idx' = idx + 1
          /\ pc' = "store_video"
     ELSE /\ idx' = idx
          /\ pc' = "done"
  /\ comments' = <<>>
  /\ fetch' = "none"
  /\ UNCHANGED <<run, videos, db_videos, db_comments, db_metrics,
                 textVars, batchVars>>

Init ==
  /\ pc = "idle" /\ run = 0 /\ videos = <<>> /\ idx = 0 /\ comments = <<>>
  /\ fetch = "none" /\ db_videos = {} /\ db_comments = {} /\ db_metrics = <<>>
  /\ IdleText
  /\ IdleBatch

Next ==
  \/ NoService
  \/ StartRun
  \/ StoreVideoData
  \/ FetchComments
  \/ FetchFails
  \/ StoreComments
  \/ StoreAbuseMetrics
  \/ NextVideo

Spec == Init /\ [][Next]_vars

-----------------------------------------------------------------------------
(* Properties of the batch functions, under SpecBatch.                     *)

\* the instant a well-formed timestamp denotes, in seconds
Instant(p) == 60 * p.mm + p.ss

WellFormed(cs) == \A i \in 1..Len(cs) : cs[i].published_at.iso

Instants(cs) == {Instant(cs[i].published_at) : i \in 1..Len(cs)}
Earliest(cs) == CHOOSE t \in Instants(cs) : \A u \in Instants(cs) : t <= u
Latest(cs)   == CHOOSE t \in Instants(cs) : \A u \in Instants(cs) : u <= t

SameTextAndAuthor(cs) ==
  \A i, j \in 1..Len(cs) :
    /\ cs[i].text_display = cs[j].text_display
    /\ cs[i].author_channel_id = cs[j].author_channel_id

\* the number of comments whose lower-cased text occurs more than once
DuplicatedMembers(cs) ==
  Cardinality({i \in 1..Len(cs) :
     \E j \in 1..Len(cs) :
        j # i /\ Lower(cs[j].text_display) = Lower(cs[i].text_display)})

\* duplicate_ratio*0.6 + (1 - author_diversity)*0.4 with every member of a
\* duplicated group counted, in units of 1/1000
MemberCountingScore(cs) ==
  RoundHalfEven(COORD_SCALE * (W_DUPLICATE * DuplicatedMembers(cs)
                  + W_AUTHOR * (Len(cs) - Cardinality({cs[i].author_channel_id : i \in 1..Len(cs)}))),
                Len(cs))

\* C2: for 10 comments with the same text and the same author id,
\* detect_coordinated_activity returns 0.96, the score computed with
\* duplicate_ratio = (comments whose lower-cased text occurs more than
\* once) / (comments) = 1.0 and author_diversity = 0.1.
C2_TenIdenticalScore ==
  (bres.op = "coordination" /\ Len(batch) = 10 /\ SameTextAndAuthor(batch)) =>
     /\ bres.out = Value(960)
     /\ bres.out = Value(MemberCountingScore(batch))

\* C3: for every batch holding a comment whose published_at does not parse,
\* calculate_velocity_metrics returns no number: it ends in an error, for
\* every batch size, a batch of one comment included.
C3_MalformedNeverANumber ==
  (bres.op = "velocity" /\ ~WellFormed(batch)) => bres.out.error # "none"

C8_SameMinuteGivesCount ==
  ( /\ bres.op = "velocity"
    /\ WellFormed(batch)
    /\ Len(batch) >= 2
    /\ Earliest(batch) \div 60 = Latest(batch) \div 60 ) =>
     bres.out = Value(Len(batch) * 100)

Aggregated == bres.op = "aggregate" /\ bres.out.error = "none"

\* C9: the aggregate of every batch has spam_comments <= total_comments,
\* unique_authors <= total_comments and spam_prevalence =
\* spam_comments / total_comments * 100 in [0,100]; 10 comments of which 3
\* are spam give 30.0.
C9_AggregateBounds ==
  Aggregated =>
     LET row == bres.out.value
     IN  /\ row.total_comments = Len(batch)
         /\ row.spam_comments <= row.total_comments
         /\ row.unique_authors <= row.total_comments
         /\ row.spam_prevalence \in 0..(100 * 100)
         /\ row.total_comments > 0 =>
               row.spam_prevalence =
                  RoundHalfEven(row.spam_comments * 100 * 100, row.total_comments)
         /\ (row.total_comments = 10 /\ row.spam_comments = 3) =>
               row.spam_prevalence = 30 * 100

\* C9 witness: a batch of 10 comments, 3 of them spam, was aggregated.
C9_Witness ==
  /\ Aggregated
  /\ bres.out.value.total_comments = 10
  /\ bres.out.value.spam_comments = 3
  /\ bres.out.value.spam_prevalence = 30 * 100

\* C10: on the empty batch the aggregation and the two functions it calls
\* end without an error (no division by zero is attempted) and every
\* count, the prevalence, the velocity and the coordination score are 0.
C10_EmptyBatchAllZero ==
  batch = <<>> =>
     /\ bres.op \in {"velocity", "coordination"} => bres.out = Value(0)
     /\ bres.op = "aggregate" =>
           /\ bres.out.error = "none"
           /\ bres.out.value.total_comments = 0
           /\ bres.out.value.spam_comments = 0
           /\ bres.out.value.spam_prevalence = 0
           /\ bres.out.value.comment_velocity = 0
           /\ bres.out.value.bot_likelihood_score = 0
           /\ bres.out.value.unique_authors = 0
           /\ bres.out.value.suspicious_accounts = 0

\* C10 witness: the empty batch was aggregated.
C10_Witness == batch = <<>> /\ bres.op = "aggregate" /\ bres.out.error = "none"

\* the batch with the comments at places i and i + 1 exchanged
SwapAdjacent(cs, i) ==
  [j \in 1..Len(cs) |-> IF j = i THEN cs[i + 1] ELSE IF j = i + 1 THEN cs[i] ELSE cs[j]]

\* the batch with its first comment moved to the end
Rotated(cs) == IF cs = <<>> THEN cs ELSE Tail(cs) \o <<Head(cs)>>

\* the batch in the opposite order
Reversed(cs) == [j \in 1..Len(cs) |-> cs[Len(cs) + 1 - j]]

\* Reorderings of a batch: the exchanges of neighbours (which generate
\* every permutation), a rotation and the reversal.
Reorderings(cs) ==
  {SwapAdjacent(cs, i) : i \in 1..(Len(cs) - 1)} \cup {Rotated(cs), Reversed(cs)}

\* the function bres records, applied to another batch
SameCall(cs) ==
  CASE bres.op = "velocity"     -> calculate_velocity_metrics(cs)
    [] bres.op = "coordination" -> detect_coordinated_activity(cs)
    [] bres.op = "aggregate"    -> aggregate_metrics("v1", 0, cs)

DerivedFields(c) ==
  [ is_spam              |-> c.is_spam,
    spam_score           |-> c.spam_score,
    has_url              |-> c.has_url,
    has_excessive_caps   |-> c.has_excessive_caps,
    has_repetitive_chars |-> c.has_repetitive_chars ]

\* C11: the aggregate of a batch (total_comments, spam_comments,
\* spam_prevalence, velocity, coordination score, unique_authors,
\* suspicious_accounts), and the velocity and the coordination score on
\* their own, are the same for every reordering of the batch; and the
\* derived fields of a comment are those of its text alone, whatever its
\* place and the other comments.
C11_OrderIndependent ==
  bres.op # "none" =>
     /\ \A q \in Reorderings(batch) : SameCall(q) = bres.out
     /\ \A i, j \in 1..Len(batch) :
           batch[i].text_display = batch[j].text_display =>
              DerivedFields(batch[i]) = DerivedFields(batch[j])
     /\ bres.op = "aggregate" =>
           \A i \in 1..Len(batch) :
              DerivedFields(batch[i]) = analyze_comment_for_abuse(batch[i].text_display)

\* C11 witness: a batch of at least 5 comments in which two neighbours
\* differ in author, text and time of publication, with a positive
\* coordination score and a positive velocity, was aggregated.
C11_Witness ==
  /\ Aggregated
  /\ Len(batch) >= 5
  /\ \E i \in 1..(Len(batch) - 1) :
        /\ batch[i].author_channel_id # batch[i + 1].author_channel_id
        /\ batch[i].text_display # batch[i + 1].text_display
        /\ batch[i].published_at # batch[i + 1].published_at
  /\ bres.out.error = "none"
  /\ bres.out.value.bot_likelihood_score > 0
  /\ bres.out.value.comment_velocity > 0

\* C15: detect_coordinated_activity returns a score in [0,1] for every
\* batch, and exactly 0.0 for every batch of fewer than 5 comments,
\* whatever its texts and authors.
C15_CoordinationRange ==
  bres.op = "coordination" =>
     /\ bres.out.error = "none"
     /\ bres.out.value \in 0..1000
     /\ Len(batch) < 5 => bres.out.value = 0

\* C15 witness: 4 comments with the same text and author scored 0.
C15_Witness ==
  /\ bres.op = "coordination"
  /\ Len(batch) = 4
  /\ SameTextAndAuthor(batch)
  /\ bres.out = Value(0)

-----------------------------------------------------------------------------
(* Properties of the pipeline, under Spec.                                 *)

\* the comments of video v stored by the current run
RunComments(v) == {r \in db_comments : r.video_id = v /\ r.collected_at = run}

\* the places in abuse_metrics of the snapshots of video v made by the current run
RunSnapshots(v) ==
  {i \in 1..Len(db_metrics) : db_metrics[i].video_id = v /\ db_metrics[i].timestamp = run}

\* the places in abuse_metrics of all snapshots of video v
Snapshots(table, v) == {i \in 1..Len(table) : table[i].video_id = v}

\* the step of the current video has ended, whichever way
StepEnded == pc \in {"next", "done", "crashed"}

\* C4: the per-video pipeline has no partial states: however the step of a
\* video ends (normally, on an empty or failed fetch, or on an error raised
\* while the metrics are computed), the store never holds the run's scored
\* comments of a video without the aggregate snapshot computed from them,
\* and no step is retried (a run makes at most one snapshot of a video).
C4_NoPartialStates ==
  StepEnded =>
    \A v \in Videos :
       /\ RunComments(v) # {} => Cardinality(RunSnapshots(v)) = 1
       /\ Cardinality(RunSnapshots(v)) <= 1

C6_OneSnapshotPerProcessedVideo ==
  (pc = "done" /\ run >= 1) =>
     \A i \in 1..Len(videos) : Cardinality(RunSnapshots(videos[i])) = 1

====
